---------------------------- MODULE Spec2Model ----------------------------
(***************************************************************************)
(* Model of app.py: the /process handler that turns a GeoJSON point set    *)
(* into buffered Voronoi regions.  Spec follows one request through the    *)
(* handler; SpecCompositor applies create_output_geojson to arguments      *)
(* drawn from bounded sets; SpecRadius applies calculate_circle_radius.    *)
(*                                                                         *)
(* Geometry is modelled on one parallel (all points share a latitude), so  *)
(* a disk is the interval [x - r, x + r], a Voronoi cell is the interval   *)
(* between two bisectors, "positive area" is positive length, and a        *)
(* geometry is a record [kind, lo, hi].  Lengths are whole metres.         *)
(* Longitudes come in whole angular steps, one step being StepMeters       *)
(* metres on the ground; angles leaving the pipeline are counted in        *)
(* 1/StepMeters steps so that the inverse projection loses nothing.        *)
(***************************************************************************)
EXTENDS Integers, Sequences, FiniteSets, TLC

\* ------------------------------------------------------------------ bounds
MaxFeatures == 3      \* longest uploaded feature list
MaxCoord == 2         \* longitudes of uploaded points are 0..MaxCoord
MaxArea == 1          \* est_area of uploaded points is -1, 0, MaxArea, or absent
StepMeters == 2       \* ground length of one longitude step
MaxArgPoints == 2     \* create_output_geojson called directly: points
MaxArgCoord == 2      \* ... coordinates 0..MaxArgCoord
MaxArgRadius == 1     \* ... buffer distances 0..MaxArgRadius
MaxArgRegions == 2    \* ... cells in voronoi_regions
MaxHa == 5            \* calculate_circle_radius called directly: ha 0..MaxHa
MaxExtra == 3         \* ... additional_radius -MaxExtra..MaxExtra

\* --------------------------------------------------------------- constants
BUFFER_ENVELOPE_SIZE == 5000
ADDITIONAL_RADIUS == 5

VARIABLES
    pc,                          \* position of the handler
    file,                        \* request.files.get('file')
    features,                    \* geojson_data.get('features', [])
    multipoint,                  \* MultiPoint of the original points
    transformed_points,          \* points in the local tmerc frame
    buffered_points,             \* their buffers
    voronoi_regions,             \* [crs, geoms] returned by voronoi_polygons
    voronoi_polygons_per_point,  \* cell found for each point
    output_geojson,              \* dict returned by create_output_geojson
    emitted_from,                \* ghost: input index behind each output feature
    stages,                      \* ghost: pipeline stages entered by this request
    response,                    \* what the handler returned
    rc                           \* last two direct calls of calculate_circle_radius

vars == <<pc, file, features, multipoint, transformed_points, buffered_points,
          voronoi_regions, voronoi_polygons_per_point, output_geojson,
          emitted_from, stages, response, rc>>

pipeline_vars == <<pc, file, features, multipoint, transformed_points, buffered_points,
              voronoi_regions, voronoi_polygons_per_point, output_geojson,
              emitted_from, stages, response>>

\* ----------------------------------------------------------------- helpers
Max(a, b) == IF a >= b THEN a ELSE b

Min(a, b) == IF a <= b THEN a ELSE b

RECURSIVE SeqSum(_)
SeqSum(s) == IF s = <<>> THEN 0 ELSE s[1] + SeqSum(Tail(s))

SetMin(S) == CHOOSE x \in S : \A y \in S : x <= y

SetMax(S) == CHOOSE x \in S : \A y \in S : x >= y

\* the r with lo <= r < hi and r * r <= n < (r + 1) * (r + 1), by bisection
RECURSIVE ISqrtBetween(_, _, _)
ISqrtBetween(n, lo, hi) ==
    IF hi - lo <= 1 THEN lo
    ELSE LET mid == (lo + hi) \div 2
         IN IF mid * mid <= n THEN ISqrtBetween(n, mid, hi) ELSE ISqrtBetween(n, lo, mid)

\* floor of the square root: x ** 0.5 cut to whole metres
ISqrt(n) == ISqrtBetween(n, 0, Min(n + 1, 46340))

\* ---------------------------------------------------------------- geometry
Polygon(lo, hi) == [kind |-> "Polygon", lo |-> lo, hi |-> hi]

EmptyGeom == [kind |-> "Empty", lo |-> 0, hi |-> 0]

\* the int 0 that fills voronoi_polygons_per_point before the scan
Sentinel == [kind |-> "int", lo |-> 0, hi |-> 0]

is_geometry(g) == g.kind \in {"Polygon", "Point", "Empty"}

is_empty(g) == g.kind = "Empty"

\* every interval is a valid geometry
is_valid(g) == is_geometry(g)

\* point.intersects(region): regions are closed, the boundary counts
intersects(x, region) ==
    /\ region.kind \in {"Polygon", "Point"}
    /\ region.lo <= x
    /\ x <= region.hi

\* intersection() that forgets to clip by the cell
intersection_unclipped(a, b) == a

\* a.intersection(b) of two geometries
intersection(a, b) ==
    IF is_empty(a) \/ is_empty(b) \/ Max(a.lo, b.lo) > Min(a.hi, b.hi)
    THEN EmptyGeom
    ELSE IF Max(a.lo, b.lo) = Min(a.hi, b.hi)
         THEN [kind |-> "Point", lo |-> Max(a.lo, b.lo), hi |-> Max(a.lo, b.lo)]
         ELSE Polygon(Max(a.lo, b.lo), Min(a.hi, b.hi))

\* point.buffer(distance): a disk, and nothing when the distance is not positive
buffer(x, distance) == IF distance <= 0 THEN EmptyGeom ELSE Polygon(x - distance, x + distance)

\* transform(to_wgs84, geom): the inverse of the local projection
to_wgs84(lon_0, g) ==
    IF is_empty(g) THEN g ELSE [kind |-> g.kind, lo |-> g.lo + lon_0, hi |-> g.hi + lon_0]

\* -------------------------------------------------------- Radius Estimator
\* the padding subtracted instead of added
calculate_circle_radius_minus(ha, additional_radius) ==
    [complex |-> ha < 0,
     re |-> IF ha < 0 THEN 0 - additional_radius
            ELSE ISqrt((ha * 10000 * 10000) \div 31415) - additional_radius,
     im |-> IF ha < 0 THEN ISqrt(((0 - ha) * 10000 * 10000) \div 31415) ELSE 0]

\* radius = (ha * 10000 / 3.1415) ** 0.5 + additional_radius.  A negative
\* base makes ** return a complex number; nothing is raised.
calculate_circle_radius(ha, additional_radius) ==
    IF ha >= 0
    THEN [complex |-> FALSE,
          re |-> ISqrt((ha * 10000 * 10000) \div 31415) + additional_radius,
          im |-> 0]
    ELSE [complex |-> TRUE,
          re |-> additional_radius,
          im |-> ISqrt(((0 - ha) * 10000 * 10000) \div 31415)]

\* ------------------------------------------------------------------ inputs
\* a properties bag: a tag naming the feature, and est_area or not
Bags == {<<>>} \cup {("est_area" :> a) : a \in {0 - 1, 0, MaxArea}}

Feature(i, lon, bag) ==
    [type |-> "Feature", geometry |-> lon, properties |-> ("name" :> i) @@ bag]

\* the feature lists of length n
FeatureLists(n) ==
    {[i \in 1..n |-> Feature(i, f[i][1], f[i][2])] : f \in [1..n -> (0..MaxCoord) \X Bags]}

\* ------------------------------------------------------------ unset values
NoCrs == [present |-> FALSE, lon_0 |-> 0]

NoRegions == [crs |-> NoCrs, geoms |-> <<>>]

NoOutput == [type |-> "None", features |-> <<>>]

NoResponse == [status |-> 0, text |-> "", raised |-> "", json |-> NoOutput]

NoCall == [called |-> FALSE, ha |-> 0, extra |-> 0,
           radius |-> [complex |-> FALSE, re |-> 0, im |-> 0]]

Text(status, text) == [status |-> status, text |-> text, raised |-> "", json |-> NoOutput]

\* an exception nobody catches: the server answers 500
Raised(exception) ==
    [status |-> 500, text |-> "Internal Server Error", raised |-> exception, json |-> NoOutput]

\* ---------------------------------------------------------------- Projector
shape(feature) == feature.geometry

\* multipoint.centroid, in metres east of longitude 0
centroid(points) == SeqSum([i \in 1..Len(points) |-> StepMeters * points[i]]) \div Len(points)

to_tmp_tmerc(lon_0, lon) == StepMeters * lon - lon_0

est_area(feature) ==
    IF "est_area" \in DOMAIN feature.properties THEN feature.properties["est_area"] ELSE 0

\* --------------------------------------------------------------- Tessellator
\* shapely.voronoi_polygons(MultiPoint(points), extend_to=envelope): one cell
\* per distinct site, closed at the envelope; coincident sites are merged.
Bisector(a, b) == (a + b) \div 2

VoronoiCells(points) ==
    LET sites == {points[i] : i \in 1..Len(points)}
        \* the diagram covers the sites' box grown by its own size, and extend_to
        margin == Max(BUFFER_ENVELOPE_SIZE, SetMax(sites) - SetMin(sites))
        lo == SetMin(sites) - margin
        hi == SetMax(sites) + margin
        left(s) == {t \in sites : t < s}
        right(s) == {t \in sites : t > s}
    IN {Polygon(IF left(s) = {} THEN lo ELSE Bisector(SetMax(left(s)), s),
                IF right(s) = {} THEN hi ELSE Bisector(s, SetMin(right(s)))) : s \in sites}

\* the orders in which .geoms may list a set of cells
Orders(S) == {q \in [1..Cardinality(S) -> S] : \A c \in S : \E k \in DOMAIN q : q[k] = c}

\* ------------------------------------------------------------ Cell Assigner
\* the scan with a break after the first hit
RECURSIVE Scan_break(_, _, _, _)
Scan_break(x, geoms, k, slot) ==
    IF k > Len(geoms) THEN slot
    ELSE IF intersects(x, geoms[k]) THEN geoms[k] ELSE Scan_break(x, geoms, k + 1, slot)

\* for region in voronoi_regions.geoms: if point.intersects(region): slot = region
RECURSIVE Scan(_, _, _, _)
Scan(x, geoms, k, slot) ==
    IF k > Len(geoms) THEN slot
    ELSE Scan(x, geoms, k + 1, IF intersects(x, geoms[k]) THEN geoms[k] ELSE slot)

AssignCells(points, geoms) == [i \in 1..Len(points) |-> Scan(points[i], geoms, 1, Sentinel)]

\* -------------------------------------------------------- Region Compositor
ZipLen(a, b, c) == Min(Len(a), Min(Len(b), Len(c)))

\* the loop appending every region twice
RECURSIVE Compose_twice(_, _, _, _, _)
Compose_twice(n, cells, circles, fs, lon_0) ==
    IF n = 0 THEN [features |-> <<>>, from |-> <<>>]
    ELSE LET before == Compose_twice(n - 1, cells, circles, fs, lon_0)
             intersection_region == intersection(circles[n], cells[n])
             feature == [type |-> "Feature",
                         geometry |-> to_wgs84(lon_0, intersection_region),
                         properties |-> fs[n].properties]
         IN IF is_valid(intersection_region) /\ ~is_empty(intersection_region)
            THEN [features |-> before.features \o <<feature, feature>>,
                  from |-> before.from \o <<n, n>>]
            ELSE before

\* the loop attaching the first feature's properties to every region
RECURSIVE Compose_first_properties(_, _, _, _, _)
Compose_first_properties(n, cells, circles, fs, lon_0) ==
    IF n = 0 THEN [features |-> <<>>, from |-> <<>>]
    ELSE LET before == Compose_first_properties(n - 1, cells, circles, fs, lon_0)
             intersection_region == intersection(circles[n], cells[n])
         IN IF is_valid(intersection_region) /\ ~is_empty(intersection_region)
            THEN [features |-> Append(before.features,
                                      [type |-> "Feature",
                                       geometry |-> to_wgs84(lon_0, intersection_region),
                                       properties |-> fs[1].properties]),
                  from |-> Append(before.from, n)]
            ELSE before

\* the loop of lines 115-123 up to index n: the list and the indexes behind it
RECURSIVE Compose(_, _, _, _, _)
Compose(n, cells, circles, fs, lon_0) ==
    IF n = 0 THEN [features |-> <<>>, from |-> <<>>]
    ELSE LET before == Compose(n - 1, cells, circles, fs, lon_0)
             intersection_region == intersection(circles[n], cells[n])
         IN IF is_valid(intersection_region) /\ ~is_empty(intersection_region)
            THEN [features |-> Append(before.features,
                                      [type |-> "Feature",
                                       geometry |-> to_wgs84(lon_0, intersection_region),
                                       properties |-> fs[n].properties]),
                  from |-> Append(before.from, n)]
            ELSE before

\* ----------------------------------------------------------------- actions
Unset ==
    /\ features' = <<>>
    /\ multipoint' = <<>>
    /\ transformed_points' = <<>>
    /\ buffered_points' = <<>>
    /\ voronoi_regions' = NoRegions
    /\ voronoi_polygons_per_point' = <<>>
    /\ output_geojson' = NoOutput
    /\ emitted_from' = <<>>
    /\ stages' = <<>>
    /\ response' = NoResponse

\* a client posts to /process; requests share no state, so one is followed
request ==
    /\ pc = "idle"
    /\ \/ file' = [kind |-> "missing", features |-> <<>>]
       \/ file' = [kind |-> "invalid", features |-> <<>>]
       \/ \E n \in 0..MaxFeatures : \E fs \in FeatureLists(n) :
              file' = [kind |-> "json", features |-> fs]
    /\ pc' = "process_geojson"
    /\ Unset
    /\ UNCHANGED rc

\* the checks without the one for an empty feature list
process_geojson_unchecked ==
    /\ pc = "process_geojson"
    /\ IF file.kind = "missing"
       THEN response' = Text(400, "Missing file") /\ pc' = "done" /\ UNCHANGED features
       ELSE IF file.kind = "invalid"
       THEN response' = Text(400, "Invalid GeoJSON file") /\ pc' = "done" /\ UNCHANGED features
       ELSE /\ features' = file.features
            /\ pc' = "process_features"
            /\ UNCHANGED response
    /\ UNCHANGED <<file, multipoint, transformed_points, buffered_points, voronoi_regions,
                   voronoi_polygons_per_point, output_geojson, emitted_from, stages, rc>>

\* lines 41-52: the checks before the pipeline
process_geojson ==
    /\ pc = "process_geojson"
    /\ IF file.kind = "missing"
       THEN response' = Text(400, "Missing file") /\ pc' = "done" /\ UNCHANGED features
       ELSE IF file.kind = "invalid"
       THEN response' = Text(400, "Invalid GeoJSON file") /\ pc' = "done" /\ UNCHANGED features
       ELSE IF file.features = <<>>
       THEN /\ response' = Text(400, "No features found in the GeoJSON file")
            /\ pc' = "done"
            /\ features' = file.features
       ELSE /\ features' = file.features
            /\ pc' = "process_features"
            /\ UNCHANGED response
    /\ UNCHANGED <<file, multipoint, transformed_points, buffered_points, voronoi_regions,
                   voronoi_polygons_per_point, output_geojson, emitted_from, stages, rc>>

\* lines 60-83; buffer() rejects a complex distance with TypeError
process_features ==
    /\ pc = "process_features"
    /\ stages' = Append(stages, "process_features")
    /\ LET points == [i \in 1..Len(features) |-> shape(features[i])]
           lon_0 == centroid(points)
           radius == [i \in 1..Len(features) |->
                          calculate_circle_radius(est_area(features[i]), ADDITIONAL_RADIUS)]
           local == [i \in 1..Len(features) |-> to_tmp_tmerc(lon_0, points[i])]
       IN IF \E i \in 1..Len(features) : radius[i].complex
          THEN /\ response' = Raised("TypeError")
               /\ pc' = "done"
               /\ UNCHANGED <<multipoint, transformed_points, buffered_points>>
          ELSE /\ multipoint' = points
               /\ transformed_points' = local
               /\ buffered_points' =
                      [i \in 1..Len(features) |-> buffer(local[i], radius[i].re)]
               /\ pc' = "generate_voronoi_polygons"
               /\ UNCHANGED response
    /\ UNCHANGED <<file, features, voronoi_regions, voronoi_polygons_per_point,
                   output_geojson, emitted_from, rc>>

\* lines 85-94.  The order of .geoms is the library's.  Whether the returned
\* collection has a crs attribute is the library's too: shapely geometries
\* have none, and the other outcome is kept so that lines 108-128 are covered.
generate_voronoi_polygons ==
    /\ pc = "generate_voronoi_polygons"
    /\ stages' = Append(stages, "generate_voronoi_polygons")
    /\ \E geoms \in Orders(VoronoiCells(transformed_points)), has_crs \in BOOLEAN :
           voronoi_regions' =
               [crs |-> IF has_crs THEN [present |-> TRUE, lon_0 |-> centroid(multipoint)]
                        ELSE NoCrs,
                geoms |-> geoms]
    /\ pc' = "create_output_geojson"
    /\ UNCHANGED <<file, features, multipoint, transformed_points, buffered_points,
                   voronoi_polygons_per_point, output_geojson, emitted_from, response, rc>>

\* lines 96-128.  voronoi_regions.crs raises AttributeError when the attribute
\* is missing; intersection() with the int 0 raises TypeError.
create_output_geojson ==
    /\ pc = "create_output_geojson"
    /\ stages' = Append(stages, "create_output_geojson")
    /\ IF ~voronoi_regions.crs.present
       THEN /\ response' = Raised("AttributeError")
            /\ pc' = "done"
            /\ UNCHANGED <<voronoi_polygons_per_point, output_geojson, emitted_from>>
       ELSE LET cells == AssignCells(transformed_points, voronoi_regions.geoms)
                n == ZipLen(cells, buffered_points, features)
                out == Compose(n, cells, buffered_points, features, voronoi_regions.crs.lon_0)
            IN /\ voronoi_polygons_per_point' = cells
               /\ IF \E i \in 1..n : ~is_geometry(cells[i])
                  THEN /\ response' = Raised("TypeError")
                       /\ pc' = "done"
                       /\ UNCHANGED <<output_geojson, emitted_from>>
                  ELSE /\ output_geojson' =
                              [type |-> "FeatureCollection", features |-> out.features]
                       /\ emitted_from' = out.from
                       /\ pc' = "jsonify"
                       /\ UNCHANGED response
    /\ UNCHANGED <<file, features, multipoint, transformed_points, buffered_points,
                   voronoi_regions, rc>>

\* line 58
jsonify ==
    /\ pc = "jsonify"
    /\ response' = [status |-> 200, text |-> "", raised |-> "", json |-> output_geojson]
    /\ pc' = "done"
    /\ UNCHANGED <<file, features, multipoint, transformed_points, buffered_points,
                   voronoi_regions, voronoi_polygons_per_point, output_geojson,
                   emitted_from, stages, rc>>

Init ==
    /\ pc = "idle"
    /\ file = [kind |-> "missing", features |-> <<>>]
    /\ features = <<>>
    /\ multipoint = <<>>
    /\ transformed_points = <<>>
    /\ buffered_points = <<>>
    /\ voronoi_regions = NoRegions
    /\ voronoi_polygons_per_point = <<>>
    /\ output_geojson = NoOutput
    /\ emitted_from = <<>>
    /\ stages = <<>>
    /\ response = NoResponse
    /\ rc = <<NoCall, NoCall>>

Next ==
    \/ request
    \/ process_geojson
    \/ process_features
    \/ generate_voronoi_polygons
    \/ create_output_geojson
    \/ jsonify

Spec == Init /\ [][Next]_vars

\* ------------------------------------------- the compositor on its own
\* Line 56 reached with whatever lines 54-55 handed over: the arguments of
\* create_output_geojson drawn from bounded sets.
ArgPolygons ==
    UNION {{Polygon(lo, hi) : hi \in (lo + 1)..MaxArgCoord} : lo \in 0..MaxArgCoord}

\* m cells of a tessellation, in any order: no two share interior
ArgGeoms(m) ==
    {g \in [1..m -> ArgPolygons] :
        \A k, l \in 1..m : k < l => Max(g[k].lo, g[l].lo) >= Min(g[k].hi, g[l].hi)}

enter_create_output_geojson ==
    /\ pc = "idle"
    /\ \E n \in 1..MaxArgPoints :
         \E points \in [1..n -> 0..MaxArgCoord], distance \in [1..n -> 0..MaxArgRadius],
            m \in 0..MaxArgRegions, has_crs \in BOOLEAN :
           \E geoms \in ArgGeoms(m) :
             /\ features' = [i \in 1..n |-> Feature(i, 0, <<>>)]
             /\ file' = [kind |-> "json", features |-> features']
             /\ multipoint' = [i \in 1..n |-> 0]
             /\ transformed_points' = points
             /\ buffered_points' = [i \in 1..n |-> buffer(points[i], distance[i])]
             /\ voronoi_regions' =
                    [crs |-> [present |-> has_crs, lon_0 |-> 0], geoms |-> geoms]
    /\ stages' = <<"process_features", "generate_voronoi_polygons">>
    /\ pc' = "create_output_geojson"
    /\ UNCHANGED <<voronoi_polygons_per_point, output_geojson, emitted_from, response, rc>>

NextCompositor ==
    \/ enter_create_output_geojson
    \/ create_output_geojson
    \/ jsonify

SpecCompositor == Init /\ [][NextCompositor]_vars

\* ------------------------------------------- the radius estimator on its own
call_calculate_circle_radius ==
    /\ \E ha \in (0 - 1)..MaxHa, extra \in (0 - MaxExtra)..MaxExtra :
           rc' = <<rc[2], [called |-> TRUE, ha |-> ha, extra |-> extra,
                           radius |-> calculate_circle_radius(ha, extra)]>>
    /\ UNCHANGED pipeline_vars

NextRadius == call_calculate_circle_radius

SpecRadius == Init /\ [][NextRadius]_vars

\* ================================================================== claims
Running == pc \notin {"idle", "process_geojson"}

Out == output_geojson.features

\* two geometries share interior
Overlap(g, h) ==
    /\ g.kind = "Polygon"
    /\ h.kind = "Polygon"
    /\ Max(g.lo, h.lo) < Min(g.hi, h.hi)

\* the indexes of the cells of geoms that point x intersects
Matches(x, geoms) == {k \in DOMAIN geoms : intersects(x, geoms[k])}

HasNegativeArea == \E i \in DOMAIN features : est_area(features[i]) < 0

C2_OneOutputPerInput ==
    /\ Len(emitted_from) = Len(Out)
    /\ Len(Out) <= Len(features)
    /\ \A k \in DOMAIN Out : emitted_from[k] \in DOMAIN features
    /\ \A k, l \in DOMAIN Out : k < l => emitted_from[k] < emitted_from[l]
    /\ \A k \in DOMAIN Out :
           Out[k].geometry =
               to_wgs84(voronoi_regions.crs.lon_0,
                        intersection(buffered_points[emitted_from[k]],
                                     voronoi_polygons_per_point[emitted_from[k]]))

C2_Witness ==
    /\ pc = "done"
    /\ response.status = 200
    /\ Len(features) = MaxFeatures
    /\ Len(response.json.features) = MaxFeatures

\* C3: an output feature carries the properties of the input feature whose
\* circle and cell made its geometry, and the input features stay as uploaded.
C3_PropertiesCopied ==
    /\ (Running /\ file.kind = "json") => features = file.features
    /\ \A k \in DOMAIN Out : Out[k].properties = features[emitted_from[k]].properties
    /\ \A k \in DOMAIN response.json.features :
           response.json.features[k].properties = file.features[emitted_from[k]].properties

C3_Witness ==
    /\ pc = "done"
    /\ response.status = 200
    /\ \E k \in DOMAIN response.json.features :
           /\ emitted_from[k] > 1
           /\ response.json.features[k].properties # features[1].properties
           /\ "est_area" \in DOMAIN response.json.features[k].properties

\* C4 as claimed: a point that intersects several cells gets the first of
\* them in the order of voronoi_regions.geoms.
C4_FirstMatchWins ==
    \A i \in DOMAIN voronoi_polygons_per_point :
        Cardinality(Matches(transformed_points[i], voronoi_regions.geoms)) > 1
            => voronoi_polygons_per_point[i] =
                   voronoi_regions.geoms[SetMin(Matches(transformed_points[i],
                                                         voronoi_regions.geoms))]

\* C4 as amended: a point that intersects several cells gets the last of
\* them in the order of voronoi_regions.geoms.
C4_LastMatchWins ==
    \A i \in DOMAIN voronoi_polygons_per_point :
        Cardinality(Matches(transformed_points[i], voronoi_regions.geoms)) > 1
            => voronoi_polygons_per_point[i] =
                   voronoi_regions.geoms[SetMax(Matches(transformed_points[i],
                                                         voronoi_regions.geoms))]

\* a point on the border of two different cells has been given the later one
C4_Witness ==
    \E i \in DOMAIN voronoi_polygons_per_point :
        LET m == Matches(transformed_points[i], voronoi_regions.geoms)
        IN /\ Cardinality(m) > 1
           /\ voronoi_regions.geoms[SetMin(m)] # voronoi_regions.geoms[SetMax(m)]
           /\ voronoi_regions.geoms[SetMin(m)].hi = transformed_points[i]
           /\ voronoi_polygons_per_point[i] = voronoi_regions.geoms[SetMax(m)]

\* the indexes whose circle meets the cell the scan gives them
Kept ==
    {i \in 1..ZipLen(transformed_points, buffered_points, features) :
        LET cell == Scan(transformed_points[i], voronoi_regions.geoms, 1, Sentinel)
        IN /\ is_geometry(cell)
           /\ ~is_empty(intersection(buffered_points[i], cell))}

Answered(kept) ==
    /\ response.status = 200
    /\ response.json.type = "FeatureCollection"
    /\ {emitted_from[k] : k \in DOMAIN emitted_from} = kept
    /\ Len(response.json.features) = Cardinality(kept)
    /\ \A k, l \in DOMAIN emitted_from : k < l => emitted_from[k] < emitted_from[l]

\* C5 as claimed: when no cell contains some point while another point has
\* its cell, the request still answers with the regions of the other points.
C5_UnmatchedPointSkipped ==
    (/\ pc = "done"
     /\ voronoi_regions.crs.present
     /\ \E i \in DOMAIN transformed_points :
            Matches(transformed_points[i], voronoi_regions.geoms) = {}
     /\ Kept # {})
        => Answered(Kept)

\* C6 as claimed: a negative est_area makes the request fail with
\* InvalidAreaError, and nothing is output.
C6_NegativeAreaRejected ==
    (pc = "done" /\ HasNegativeArea)
        => /\ response.raised = "InvalidAreaError"
           /\ response.json = NoOutput

\* C7: an empty feature list is refused (400, "No features found in the
\* GeoJSON file") before any pipeline stage runs, and nothing is output.
C7_EmptyListRefused ==
    (Running /\ file.kind = "json" /\ file.features = <<>>)
        => /\ pc = "done"
           /\ response = Text(400, "No features found in the GeoJSON file")
           /\ stages = <<>>
           /\ output_geojson = NoOutput

C7_Witness ==
    /\ pc = "done"
    /\ file.kind = "json"
    /\ file.features = <<>>
    /\ response.status = 400

\* C8 as claimed: one point of target area 0 is answered with one feature,
\* the whole circle of radius 5 m around it.
C8_SinglePoint ==
    (/\ pc = "done"
     /\ Len(features) = 1
     /\ est_area(features[1]) = 0)
        => /\ response.status = 200
           /\ Len(response.json.features) = 1
           /\ response.json.features[1].geometry =
                  Polygon(StepMeters * features[1].geometry - ADDITIONAL_RADIUS,
                          StepMeters * features[1].geometry + ADDITIONAL_RADIUS)

\* C9: for area >= 0 the radius is a real number >= extra, equal to extra
\* at area 0, and it does not decrease when the area grows.
C9_RadiusBounds ==
    /\ \A k \in 1..2 :
           (rc[k].called /\ rc[k].ha >= 0)
               => /\ ~rc[k].radius.complex
                  /\ rc[k].radius.re >= rc[k].extra
                  /\ rc[k].ha = 0 => rc[k].radius.re = rc[k].extra
    /\ (/\ rc[1].called
        /\ rc[2].called
        /\ rc[1].extra = rc[2].extra
        /\ 0 <= rc[1].ha
        /\ rc[1].ha <= rc[2].ha)
           => rc[1].radius.re <= rc[2].radius.re

C9_Witness ==
    /\ rc[1].called
    /\ rc[2].called
    /\ rc[1].extra = rc[2].extra
    /\ rc[1].extra > 0
    /\ rc[1].ha = 0
    /\ rc[2].ha > 0
    /\ rc[1].radius.re = rc[1].extra
    /\ rc[2].radius.re > rc[1].radius.re

\* C10 as claimed: a point whose circle misses its cell is left out without
\* an error, and the request answers with exactly the other points, in
\* input order.
C10_EmptyIntersectionSkipped ==
    (/\ pc = "done"
     /\ \A i \in DOMAIN transformed_points :
            Matches(transformed_points[i], voronoi_regions.geoms) # {}
     /\ Kept # DOMAIN transformed_points)
        => Answered(Kept)

=============================================================================
